---------------------------- MODULE Spec2Model ----------------------------
(***************************************************************************)
(* Media Downloader (index.js): a batch run that reads data/messages.json, *)
(* splits each record's Attachments field into URLs, derives a file name   *)
(* <ID>_<ordinal><ext> per URL, skips existing files and downloads the     *)
(* others one at a time.                                                   *)
(*                                                                         *)
(* Text is modelled as a sequence of chunks (short strings): a digit, a    *)
(* separator, or a lexical piece of a URL.  An ID is a sequence of digit   *)
(* chunks, an Attachments field a sequence of separator and URL chunks.    *)
(***************************************************************************)
EXTENDS Integers, Sequences, FiniteSets, TLC

VARIABLES
    input,          \* data/messages.json as it lies on disk (never written)
    files,          \* the downloads directory: path -> content state
    pendingIO,      \* fs operations handed to the thread pool, not yet done
    run,            \* which process invocation this is (1, 2, ...)
    prev,           \* how the previous invocation ended
    pc,             \* position of the current process
    data,           \* readFile's result
    mi,             \* index of the current message in data
    urls,           \* urls of the current message
    i,              \* index into urls (0-based, as in the code)
    xfer,           \* the downloadFile call in flight
    isShuttingDown, \* the module-level flag
    downloadCount,
    skippedCount,
    out,            \* console output of the current process
    netlog,         \* requests sent and pacing waits elapsed, in order
    exitCode,       \* -1 while the process lives
    fn              \* the pure pipeline of SpecParse

vars == << input, files, pendingIO, run, prev, pc, data, mi, urls, i, xfer,
           isShuttingDown, downloadCount, skippedCount, out, netlog,
           exitCode, fn >>

(***************************************************************************)
(* Bounds of the model.                                                    *)
(***************************************************************************)
MaxRecords == 1     \* records of the input files built from RunRecords
MaxRuns == 2        \* process invocations in sequence
MaxItems == 3       \* items (URLs, separators) of an Attachments field in SpecParse

(***************************************************************************)
(* Generic sequence helpers.                                               *)
(***************************************************************************)
RECURSIVE Flatten(_)
Flatten(ss) == IF ss = << >> THEN << >> ELSE Head(ss) \o Flatten(Tail(ss))

SeqsUpTo(S, n) == UNION { [1..k -> S] : k \in 0..n }

\* Last index k of s with P-chunk membership in set T; 0 when there is none.
LastIn(s, T) ==
    LET hits == { k \in 1..Len(s) : s[k] \in T }
    IN  IF hits = {} THEN 0 ELSE CHOOSE k \in hits : \A j \in hits : j <= k


(***************************************************************************)
(* String operations of JavaScript and Node used by the code, on chunk     *)
(* sequences.                                                              *)
(***************************************************************************)
Whitespace == { " ", "\t" }

RECURSIVE TrimStart(_)
TrimStart(s) ==
    IF s # << >> /\ Head(s) \in Whitespace THEN TrimStart(Tail(s)) ELSE s

RECURSIVE TrimEnd(_)
TrimEnd(s) ==
    IF s # << >> /\ s[Len(s)] \in Whitespace
    THEN TrimEnd(SubSeq(s, 1, Len(s) - 1)) ELSE s

\* String.prototype.trim
Trim(s) == TrimEnd(TrimStart(s))

\* String.prototype.split(sep) for a one-chunk separator: empty pieces are kept.
RECURSIVE SplitOn(_, _)
SplitOn(s, sep) ==
    LET hits == { k \in 1..Len(s) : s[k] = sep }
    IN  IF hits = {} THEN << s >>
        ELSE LET k == CHOOSE x \in hits : \A y \in hits : x <= y
             IN  << SubSeq(s, 1, k - 1) >> \o SplitOn(SubSeq(s, k + 1, Len(s)), sep)

DigitChunk(d) == << "0", "1", "2", "3", "4", "5", "6", "7", "8", "9" >>[d + 1]

\* String(n) for a natural number n.
RECURSIVE NatToString(_)
NatToString(n) ==
    IF n < 10 THEN << DigitChunk(n) >>
    ELSE NatToString(n \div 10) \o << DigitChunk(n % 10) >>

(***************************************************************************)
(* new URL(url), path.basename, path.extname.  The parser drops leading    *)
(* and trailing blanks and every tab; an absolute URL starts with a scheme *)
(* and a host.  Every URL of the model has a path after its host.          *)
(***************************************************************************)
Schemes == { "https:", "http:" }
HostChunk == "//h"

UrlText(url) == SelectSeq(Trim(url), LAMBDA c : c # "\t")

\* new URL(url) does not throw
UrlParses(url) ==
    LET u == UrlText(url)
    IN  Len(u) >= 2 /\ u[1] \in Schemes /\ u[2] = HostChunk

\* urlObj.pathname
UrlPathname(url) == LET u == UrlText(url) IN SubSeq(u, 3, Len(u))

\* path.basename(p): what follows the last slash
Basename(p) == SubSeq(p, LastIn(p, { "/", HostChunk }) + 1, Len(p))

\* ExtName with the dot left out
ExtNameNoDot(name) ==
    LET k == LastIn(name, { "." })
    IN  IF k <= 1 THEN << >> ELSE SubSeq(name, k + 1, Len(name))

\* path.extname(name): from the last dot, unless the name starts with it
ExtName(name) ==
    LET k == LastIn(name, { "." })
    IN  IF k <= 1 THEN << >> ELSE SubSeq(name, k, Len(name))

(***************************************************************************)
(* JSON.parse of an integer literal gives a binary64 number, and the       *)
(* template literal `${message.ID}` renders it back in decimal.  The       *)
(* decimal view taken here: at most MaxSigDigits significant digits        *)
(* survive, the rest is rounded away and printed as zeros.  IdLiterals     *)
(* holds literals for which this agrees with IEEE 754 binary64.            *)
(***************************************************************************)
MaxSigDigits == 17

DigitValue(c) == CHOOSE d \in 0..9 : DigitChunk(d) = c

\* ds + 1 on decimal digits
RECURSIVE Increment(_)
Increment(ds) ==
    IF ds = << >> THEN << "1" >>
    ELSE IF ds[Len(ds)] = "9"
         THEN Increment(SubSeq(ds, 1, Len(ds) - 1)) \o << "0" >>
         ELSE SubSeq(ds, 1, Len(ds) - 1) \o << DigitChunk(DigitValue(ds[Len(ds)]) + 1) >>

Zeros(n) == [ k \in 1..n |-> "0" ]

\* String(Number(ds)) for a literal ds of decimal digits
NumberToString(ds) ==
    IF Len(ds) <= MaxSigDigits THEN ds
    ELSE LET keep == SubSeq(ds, 1, MaxSigDigits)
             up   == DigitValue(ds[MaxSigDigits + 1]) >= 5
         IN  (IF up THEN Increment(keep) ELSE keep) \o Zeros(Len(ds) - MaxSigDigits)

(***************************************************************************)
(* The input file.  A record is written as an "ID" member and an           *)
(* "Attachments" member.  The ID member has a form (an integer literal, a  *)
(* negative integer literal, a literal with a fraction, a quoted string,   *)
(* or no member at all), its digits, and gap: whether blanks stand between *)
(* the key's closing quote and the colon ("ID" : 7), which JSON allows.    *)
(* The Attachments member is a string (s), absent, or a value that is no   *)
(* string (num: a non-zero number).                                        *)
(***************************************************************************)
RawId(form, gap, ds) == [ form |-> form, gap |-> gap, ds |-> ds ]
RawAtt(t, s) == [ t |-> t, s |-> s ]
RawRecord(id, att) == [ id |-> id, att |-> att ]

\* rawData.replace(/"ID":\s*(\d+)/g, '"ID": "$1"') on one ID member: the
\* pattern needs the colon right after the key and a digit as the first
\* character of the value; it quotes the leading run of digits only.
FixId(id) ==
    IF id.gap \/ id.form \notin { "int", "frac" } THEN id
    ELSE IF id.form = "int" THEN [ id EXCEPT !.form = "str" ]
    ELSE [ id EXCEPT !.form = "broken" ]       \* "ID": "12".5

\* fixedData: the text after the replace
FixedData(recs) == [ k \in 1..Len(recs) |-> [ recs[k] EXCEPT !.id = FixId(@) ] ]

\* JSON.parse throws a SyntaxError
JsonInvalid(recs) == \E k \in 1..Len(recs) : recs[k].id.form = "broken"

\* JSON.parse of an ID member: its type and its String() rendering
ParseId(id) ==
    CASE id.form = "str"    -> [ t |-> "string", s |-> id.ds ]
      [] id.form = "int"    -> [ t |-> "number", s |-> NumberToString(id.ds) ]
      [] id.form = "neg"    -> [ t |-> "number", s |-> << "-" >> \o NumberToString(id.ds) ]
      [] id.form = "frac"   -> [ t |-> "number", s |-> id.ds \o << ".", "5" >> ]
      [] OTHER              -> [ t |-> "undefined", s |-> << "undefined" >> ]

\* readFile(filename), for a file that can be read and parses
readFile(recs) ==
    LET fixedData == FixedData(recs)
    IN  [ k \in 1..Len(recs) |->
            [ ID |-> ParseId(fixedData[k].id), Attachments |-> fixedData[k].att ] ]

(***************************************************************************)
(* The body of the loop over messages, as pure functions.                  *)
(***************************************************************************)
\* NoAttachments without the test !message.Attachments
NoAttachmentsTrimOnly(att) == att.t = "str" /\ Trim(att.s) = << >>

\* !message.Attachments || message.Attachments.trim() === ""
NoAttachments(att) ==
    \/ att.t = "absent"
    \/ att.t = "str" /\ Trim(att.s) = << >>

\* message.Attachments.trim() throws a TypeError: the value is no string
AttachmentsThrows(att) == att.t # "str"

\* message.Attachments.split(" ").filter((url) => url.trim() !== "")
SplitUrls(s) == SelectSeq(SplitOn(s, " "), LAMBDA url : Trim(url) # << >>)

\* FilePath with the ordinal counted over the files found or fetched so far
FilePathByCount(id, idx, url) ==
    id.s \o << "_" >> \o NatToString(downloadCount + skippedCount + 1)
         \o ExtName(Basename(UrlPathname(url)))

\* FilePath with the ordinal left at 1 for every url of a record
FilePathFirstOrdinal(id, idx, url) ==
    id.s \o << "_" >> \o NatToString(1) \o ExtName(Basename(UrlPathname(url)))

\* path.join(downloadDir, `${message.ID}_${i + 1}${ext}`), without the directory
FilePath(id, idx, url) ==
    id.s \o << "_" >> \o NatToString(idx + 1) \o ExtName(Basename(UrlPathname(url)))

(***************************************************************************)
(* Inputs of the model.                                                    *)
(***************************************************************************)
UrlA == << "https:", "//h", "/", "a", ".", "jpg" >>
UrlB == << "https:", "//h", "/", "b", ".", "png" >>
UrlC == << "https:", "//h", "/", "c", ".", "jpg" >>
UrlHttp == << "http:", "//h", "/", "d", ".", "gif" >>   \* https.get refuses the protocol
Junk == << "junk" >>                                    \* no URL
UrlNoExt == << "https:", "//h", "/", "e" >>             \* a path with no extension
UrlDigitExt == << "https:", "//h", "/", "f", ".", "1" >> \* an extension of digits

Big1 == << "1","0","0","0","0","0","0","0","0","0","0","0","0","0","0","0","0","1" >>
Big2 == << "1","2","3","4","5","6","7","8","9","0","1","2","3","4","5","6","7","8" >>

IdLiterals == { << "7" >>, << "8" >>, << "4", "2" >>, Big1, Big2 }

\* Records of the input files of a run: two URLs; the same ID once more,
\* with a token that is no URL; an Attachments value that is no string
RecTwoUrls == RawRecord(RawId("int", FALSE, << "7" >>), RawAtt("str", UrlA \o << " " >> \o UrlC))
RecSameId == RawRecord(RawId("str", FALSE, << "7" >>), RawAtt("str", Junk \o << " " >> \o UrlA))
RecNoString == RawRecord(RawId("int", FALSE, << "8" >>), RawAtt("num", << >>))

RunRecords == { RecTwoUrls, RecSameId, RecNoString }

\* Further input files: two records with the same ID, in both orders; a field that is no
\* string before a record with two URLs; a URL https.get refuses; a blank
\* field; an empty field before a record with a URL; a record with no
\* Attachments member before one with two URLs; a long ID that the replace
\* misses, with two URLs separated by a comma
ExtraFiles ==
    { << RecTwoUrls, RecSameId >>,
      << RecSameId, RecTwoUrls >>,
      << RecNoString, RecTwoUrls >>,
      << RawRecord(RawId("int", FALSE, << "8" >>), RawAtt("str", UrlHttp)) >>,
      << RawRecord(RawId("int", FALSE, << "8" >>), RawAtt("str", << " " >>)) >>,
      << RawRecord(RawId("int", FALSE, << "8" >>), RawAtt("str", << >>)), RecSameId >>,
      << RawRecord(RawId("int", FALSE, << "8" >>), RawAtt("absent", << >>)), RecTwoUrls >>,
      << RawRecord(RawId("int", TRUE, Big1), RawAtt("str", UrlA \o << "," >> \o UrlB)) >> }

InputFile(kind, recs) == [ kind |-> kind, recs |-> recs ]

RunInputs ==
    { InputFile(k, << >>) : k \in { "missing", "unreadable", "invalid" } }
    \cup { InputFile("ok", recs) : recs \in SeqsUpTo(RunRecords, MaxRecords) \cup ExtraFiles }

(***************************************************************************)
(* State of a process and of the file system.                              *)
(***************************************************************************)
NoXfer == [ state |-> "none", path |-> << >>, url |-> << >>, why |-> "" ]
NoPrev == [ end |-> "none", errors |-> 0, names |-> {} ]
NoFn == [ stage |-> "off" ]

\* Exists looking at a place where no download is ever written
ExistsElsewhere(p) == FALSE

Exists(p) == p \in DOMAIN files                       \* fs.existsSync
WithFile(f, p, c) == [ q \in DOMAIN f \cup { p } |-> IF q = p THEN c ELSE f[q] ]
WithoutFile(f, p) == [ q \in DOMAIN f \ { p } |-> f[q] ]

IoOp(op, p) == [ op |-> op, path |-> p ]

Line(k, what, m, n) ==
    [ k |-> k, what |-> what, m |-> m, n |-> n, d |-> downloadCount, s |-> skippedCount ]

Init ==
    /\ input \in RunInputs
    /\ files = [ q \in {} |-> "empty" ]
    /\ pendingIO = {}
    /\ run = 1
    /\ prev = NoPrev
    /\ pc = "start"
    /\ data = << >>
    /\ mi = 0
    /\ urls = << >>
    /\ i = 0
    /\ xfer = NoXfer
    /\ isShuttingDown = FALSE
    /\ downloadCount = 0
    /\ skippedCount = 0
    /\ out = << >>
    /\ netlog = << >>
    /\ exitCode = -1
    /\ fn = NoFn

(***************************************************************************)
(* downloadAllAttachments.  JavaScript runs one callback at a time: the    *)
(* SIGINT handler and the network callbacks run only while the function is *)
(* suspended at one of its two awaits.  File operations handed to the      *)
(* thread pool complete at any time.                                       *)
(***************************************************************************)
\* lines 117-133: find and read the input; a throw rejects the promise
Setup ==
    /\ pc = "start"
    /\ IF input.kind = "missing"
       THEN /\ out' = Append(out, Line("fatal", << "Input file not found" >>, 0, 0))
            /\ pc' = "aborted"
            /\ UNCHANGED << data, mi >>
       ELSE IF input.kind = "unreadable"
       THEN /\ out' = Append(out, Line("fatal", << "readFileSync" >>, 0, 0))
            /\ pc' = "aborted"
            /\ UNCHANGED << data, mi >>
       ELSE IF input.kind = "invalid" \/ JsonInvalid(FixedData(input.recs))
       THEN /\ out' = Append(out, Line("fatal", << "SyntaxError" >>, 0, 0))
            /\ pc' = "aborted"
            /\ UNCHANGED << data, mi >>
       ELSE /\ data' = readFile(input.recs)
            /\ mi' = 1
            /\ pc' = "loop"
            /\ UNCHANGED out
    /\ UNCHANGED << input, files, pendingIO, run, prev, urls, i, xfer,
                    isShuttingDown, downloadCount, skippedCount, netlog,
                    exitCode, fn >>

\* lines 135-145 and 177: the head of the loop over messages
NextMessage ==
    /\ pc = "loop"
    /\ IF mi > Len(data)
       THEN /\ out' = Append(out, Line("complete", << >>, 0, 0))
            /\ pc' = "done"
            /\ UNCHANGED << mi, urls, i >>
       ELSE IF isShuttingDown
       THEN /\ out' = Append(out, Line("stopped", << >>, 0, 0))
            /\ pc' = "done"
            /\ UNCHANGED << mi, urls, i >>
       ELSE IF NoAttachments(data[mi].Attachments)
       THEN /\ mi' = mi + 1
            /\ UNCHANGED << out, pc, urls, i >>
       ELSE IF AttachmentsThrows(data[mi].Attachments)
       THEN /\ out' = Append(out, Line("fatal", << "TypeError" >>, mi, 0))
            /\ pc' = "aborted"
            /\ UNCHANGED << mi, urls, i >>
       ELSE /\ urls' = SplitUrls(data[mi].Attachments.s)
            /\ i' = 0
            /\ pc' = "urls"
            /\ UNCHANGED << out, mi >>
    /\ UNCHANGED << input, files, pendingIO, run, prev, data, xfer,
                    isShuttingDown, downloadCount, skippedCount, netlog,
                    exitCode, fn >>

\* https.get(url, ...) throws ERR_INVALID_PROTOCOL before any request
GetThrows(url) == UrlText(url)[1] # "https:"

\* lines 147-166: one turn of the loop over urls, up to the first await.
\* downloadFile's executor runs at once: createWriteStream queues the open
\* of the file and https.get sends the request.
NextUrl ==
    /\ pc = "urls"
    /\ IF i >= Len(urls)
       THEN /\ mi' = mi + 1
            /\ pc' = "loop"
            /\ UNCHANGED << i, out, skippedCount, xfer, pendingIO, netlog >>
       ELSE LET url == urls[i + 1] IN
            IF ~UrlParses(url)
            THEN /\ out' = Append(out, Line("error", url, mi, i + 1))
                 /\ i' = i + 1
                 /\ UNCHANGED << mi, pc, skippedCount, xfer, pendingIO, netlog >>
            ELSE LET filepath == FilePath(data[mi].ID, i, url) IN
                 IF Exists(filepath)
                 THEN /\ out' = Append(out, Line("skipped", filepath, mi, i + 1))
                      /\ skippedCount' = skippedCount + 1
                      /\ i' = i + 1
                      /\ UNCHANGED << mi, pc, xfer, pendingIO, netlog >>
                 ELSE /\ pendingIO' = pendingIO \cup { IoOp("open", filepath) }
                      /\ xfer' = [ state |-> IF GetThrows(url) THEN "rejected" ELSE "requested",
                                   path |-> filepath, url |-> url,
                                   why |-> IF GetThrows(url) THEN "protocol" ELSE "" ]
                      /\ netlog' = IF GetThrows(url) THEN netlog ELSE Append(netlog, "req")
                      /\ pc' = "transfer"
                      /\ UNCHANGED << mi, i, out, skippedCount >>
    /\ UNCHANGED << input, files, run, prev, data, urls, isShuttingDown,
                    downloadCount, exitCode, fn >>

(***************************************************************************)
(* downloadFile: the events of the call in flight.                         *)
(***************************************************************************)
Opened(p) == IoOp("open", p) \notin pendingIO

\* Awaiting with downloadFile called and not awaited
NotAwaited(st) == pc = "transfer"

Awaiting(st) == pc = "transfer" /\ xfer.state \in st

\* the thread pool completes one file operation: the open of a write stream
\* creates or truncates the file, fs.unlink removes it, close ends the stream
IoCompletes ==
    /\ \E op \in pendingIO :
        /\ pendingIO' = pendingIO \ { op }
        /\ files' = CASE op.op = "open"   -> WithFile(files, op.path, "empty")
                      [] op.op = "unlink" -> WithoutFile(files, op.path)
                      [] OTHER            -> files
    /\ UNCHANGED << input, run, prev, pc, data, mi, urls, i, xfer, isShuttingDown,
                    downloadCount, skippedCount, out, netlog, exitCode, fn >>

\* lines 84-90: the response arrives with status 200 and is piped to the file
Response200 ==
    /\ Awaiting({ "requested" })
    /\ xfer' = [ xfer EXCEPT !.state = "piping" ]
    /\ UNCHANGED << input, files, pendingIO, run, prev, pc, data, mi, urls, i,
                    isShuttingDown, downloadCount, skippedCount, out, netlog,
                    exitCode, fn >>

\* lines 85-88: any other status rejects; the file is left as it is
ResponseNot200 ==
    /\ Awaiting({ "requested" })
    /\ xfer' = [ xfer EXCEPT !.state = "rejected", !.why = "status" ]
    /\ UNCHANGED << input, files, pendingIO, run, prev, pc, data, mi, urls, i,
                    isShuttingDown, downloadCount, skippedCount, out, netlog,
                    exitCode, fn >>

\* lines 98-101: the request emits "error", before a response or on a
\* socket error during the body: fs.unlink is queued (its callback does
\* nothing) and the promise is rejected at once
RequestError ==
    /\ Awaiting({ "requested", "piping" })
    /\ pendingIO' = pendingIO \cup { IoOp("unlink", xfer.path) }
    /\ xfer' = [ xfer EXCEPT !.state = "rejected", !.why = "transport" ]
    /\ UNCHANGED << input, files, run, prev, pc, data, mi, urls, i,
                    isShuttingDown, downloadCount, skippedCount, out, netlog,
                    exitCode, fn >>

\* line 90: a part of the body reaches the file
WriteChunk ==
    /\ Awaiting({ "piping" })
    /\ Opened(xfer.path)
    /\ files' = WithFile(files, xfer.path, "partial")
    /\ UNCHANGED << input, pendingIO, run, prev, pc, data, mi, urls, i, xfer,
                    isShuttingDown, downloadCount, skippedCount, out, netlog,
                    exitCode, fn >>

\* lines 92-96: the body ended and is written: "finish" closes and resolves
Finish ==
    /\ Awaiting({ "piping" })
    /\ Opened(xfer.path)
    /\ files' = WithFile(files, xfer.path, "complete")
    /\ pendingIO' = pendingIO \cup { IoOp("close", xfer.path) }
    /\ out' = Append(out, Line("downloaded", xfer.path, mi, i + 1))
    /\ xfer' = [ xfer EXCEPT !.state = "resolved" ]
    /\ UNCHANGED << input, run, prev, pc, data, mi, urls, i, isShuttingDown,
                    downloadCount, skippedCount, netlog, exitCode, fn >>

\* the connection is closed during the body with no socket error: the
\* response has no "error" listener and pipe does not end the file, so
\* "finish" never comes
BodyLost ==
    /\ Awaiting({ "piping" })
    /\ xfer' = [ xfer EXCEPT !.state = "stalled" ]
    /\ UNCHANGED << input, files, pendingIO, run, prev, pc, data, mi, urls, i,
                    isShuttingDown, downloadCount, skippedCount, out, netlog,
                    exitCode, fn >>

\* the write stream emits "error" (it has no listener): uncaught exception
WriteError ==
    /\ Awaiting({ "requested", "piping" })
    /\ out' = Append(out, Line("fatal", << "Uncaught" >>, mi, i + 1))
    /\ pc' = "crashed"
    /\ exitCode' = 1
    /\ UNCHANGED << input, files, pendingIO, run, prev, data, mi, urls, i, xfer,
                    isShuttingDown, downloadCount, skippedCount, netlog, fn >>

\* lines 166-170: the await returns; the pacing timer is set
Resume ==
    /\ Awaiting({ "resolved" })
    /\ downloadCount' = downloadCount + 1
    /\ xfer' = NoXfer
    /\ pc' = "pacing"
    /\ UNCHANGED << input, files, pendingIO, run, prev, data, mi, urls, i,
                    isShuttingDown, skippedCount, out, netlog, exitCode, fn >>

\* Catch with the increment of downloadCount moved behind the try statement
CatchCounted ==
    /\ Awaiting({ "rejected" })
    /\ out' = Append(out, Line("error", xfer.url, mi, i + 1))
    /\ downloadCount' = downloadCount + 1
    /\ xfer' = NoXfer
    /\ i' = i + 1
    /\ pc' = "urls"
    /\ UNCHANGED << input, files, pendingIO, run, prev, data, mi, urls,
                    isShuttingDown, skippedCount, netlog, exitCode, fn >>

\* lines 171-173: the await throws; the catch clause logs and the loop goes on
Catch ==
    /\ Awaiting({ "rejected" })
    /\ out' = Append(out, Line("error", xfer.url, mi, i + 1))
    /\ xfer' = NoXfer
    /\ i' = i + 1
    /\ pc' = "urls"
    /\ UNCHANGED << input, files, pendingIO, run, prev, data, mi, urls,
                    isShuttingDown, downloadCount, skippedCount, netlog,
                    exitCode, fn >>

\* line 170: the 700 ms timer fires
TimerFires ==
    /\ pc = "pacing"
    /\ netlog' = Append(netlog, "wait")
    /\ i' = i + 1
    /\ pc' = "urls"
    /\ UNCHANGED << input, files, pendingIO, run, prev, data, mi, urls, xfer,
                    isShuttingDown, downloadCount, skippedCount, out, exitCode, fn >>

\* lines 29-33: the SIGINT handler; process.exit(0) does not return
Sigint ==
    /\ \/ Awaiting({ "requested", "piping", "stalled" })
       \/ pc = "pacing"
    /\ out' = Append(out, Line("sigint", << >>, 0, 0))
    /\ isShuttingDown' = TRUE
    /\ pc' = "exited"
    /\ exitCode' = 0
    /\ UNCHANGED << input, files, pendingIO, run, prev, data, mi, urls, i, xfer,
                    downloadCount, skippedCount, netlog, fn >>

\* line 180 and the end of the process: .catch(console.error) handles the
\* rejection; the process ends with status 0 when nothing is left to run
ProcessEnds ==
    /\ exitCode = -1
    /\ pendingIO = {}
    /\ \/ pc \in { "done", "aborted" } /\ pc' = pc
       \/ Awaiting({ "stalled" }) /\ pc' = "hung"
    /\ exitCode' = 0
    /\ UNCHANGED << input, files, pendingIO, run, prev, data, mi, urls, i, xfer,
                    isShuttingDown, downloadCount, skippedCount, out, netlog, fn >>

ErrorLines(o) == Cardinality({ k \in 1..Len(o) : o[k].k = "error" })

\* the file names a process reported, each with its record and ordinal
NamesIn(o) ==
    { << o[k].m, o[k].n, o[k].what >> :
        k \in { j \in 1..Len(o) : o[j].k \in { "downloaded", "skipped" } } }

\* node index.js once more: a new process on the same input and directory;
\* file operations the dead process had not completed are lost
NextRun ==
    /\ exitCode >= 0
    /\ run < MaxRuns
    /\ run' = run + 1
    /\ prev' = [ end |-> pc, errors |-> ErrorLines(out), names |-> NamesIn(out) ]
    /\ pendingIO' = {}
    /\ pc' = "start"
    /\ data' = << >>
    /\ mi' = 0
    /\ urls' = << >>
    /\ i' = 0
    /\ xfer' = NoXfer
    /\ isShuttingDown' = FALSE
    /\ downloadCount' = 0
    /\ skippedCount' = 0
    /\ out' = << >>
    /\ netlog' = << >>
    /\ exitCode' = -1
    /\ UNCHANGED << input, files, fn >>

Next ==
    \/ Setup
    \/ NextMessage
    \/ NextUrl
    \/ IoCompletes
    \/ Response200
    \/ ResponseNot200
    \/ RequestError
    \/ WriteChunk
    \/ Finish
    \/ BodyLost
    \/ WriteError
    \/ Resume
    \/ Catch
    \/ TimerFires
    \/ Sigint
    \/ ProcessEnds
    \/ NextRun

Spec == Init /\ [][Next]_vars

(***************************************************************************)
(* SpecLive: the same program with what its scheduling gives.  The event   *)
(* loop runs every continuation that is ready and the thread pool          *)
(* completes every file operation; every request that is out meets one of  *)
(* its outcomes.  Nothing makes an interrupt or a further run happen.      *)
(***************************************************************************)
ProgramSteps ==
    Setup \/ NextMessage \/ NextUrl \/ Resume \/ Catch \/ TimerFires \/ ProcessEnds

TransferOutcomes ==
    Response200 \/ ResponseNot200 \/ RequestError \/ Finish \/ BodyLost \/ WriteError

SpecLive ==
    /\ Init /\ [][Next]_vars
    /\ WF_vars(ProgramSteps)
    /\ WF_vars(IoCompletes)
    /\ WF_vars(TransferOutcomes)

(***************************************************************************)
(* SpecParse: the pure pipeline readFile -> split -> file names, applied   *)
(* to one record drawn from a wider set of ID members and Attachments      *)
(* fields than a run explores.  No process runs (pc = "off").              *)
(***************************************************************************)
Items == { << " " >>, << "," >>, << "\t" >>, UrlA, UrlB, Junk }

ParseIds ==
    { RawId(form, gap, ds) :
        form \in { "int", "neg", "frac", "str" }, gap \in BOOLEAN, ds \in IdLiterals }
    \cup { RawId("absent", FALSE, << >>) }

\* Fields of eleven tokens, for ordinals of one and of two digits: URLs
\* with an extension of digits, with none and with one of letters, and the
\* same with a token that is no URL among them
ManyUrls ==
    << UrlDigitExt, UrlNoExt, UrlA, UrlB, UrlA, UrlB, UrlA, UrlB, UrlA, UrlDigitExt, UrlNoExt >>
ManyTokens == [ ManyUrls EXCEPT ![2] = Junk ]

\* s.join(" ")
RECURSIVE JoinOnSpace(_)
JoinOnSpace(ss) ==
    IF Len(ss) <= 1 THEN Flatten(ss) ELSE Head(ss) \o << " " >> \o JoinOnSpace(Tail(ss))

ParseAtts ==
    { RawAtt("str", Flatten(items)) : items \in SeqsUpTo(Items, MaxItems) }
    \cup { RawAtt("str", JoinOnSpace(ManyUrls)), RawAtt("str", JoinOnSpace(ManyTokens)) }
    \cup { RawAtt("absent", << >>), RawAtt("num", << >>) }

FnState(stage, rec, msg, us, names) ==
    [ stage |-> stage, rec |-> rec, msg |-> msg, urls |-> us, names |-> names ]

NoMsg == [ ID |-> ParseId(RawId("absent", FALSE, << >>)), Attachments |-> RawAtt("absent", << >>) ]

InitParse ==
    /\ input = InputFile("missing", << >>)
    /\ files = [ q \in {} |-> "empty" ]
    /\ pendingIO = {}
    /\ run = 1
    /\ prev = NoPrev
    /\ pc = "off"
    /\ data = << >>
    /\ mi = 0
    /\ urls = << >>
    /\ i = 0
    /\ xfer = NoXfer
    /\ isShuttingDown = FALSE
    /\ downloadCount = 0
    /\ skippedCount = 0
    /\ out = << >>
    /\ netlog = << >>
    /\ exitCode = -1
    /\ \E id \in ParseIds, att \in ParseAtts :
          fn = FnState("raw", RawRecord(id, att), NoMsg, << >>, << >>)

runVars == << input, files, pendingIO, run, prev, pc, data, mi, urls, i, xfer,
              isShuttingDown, downloadCount, skippedCount, out, netlog, exitCode >>

\* readFile on a file holding the one record
ParseRead ==
    /\ fn.stage = "raw"
    /\ fn' = IF JsonInvalid(FixedData(<< fn.rec >>))
             THEN [ fn EXCEPT !.stage = "threw" ]
             ELSE [ fn EXCEPT !.stage = "parsed", !.msg = readFile(<< fn.rec >>)[1] ]
    /\ UNCHANGED runVars

\* lines 141-145 on the parsed record
ParseSplit ==
    /\ fn.stage = "parsed"
    /\ fn' = IF NoAttachments(fn.msg.Attachments)
             THEN [ fn EXCEPT !.stage = "split" ]
             ELSE IF AttachmentsThrows(fn.msg.Attachments)
             THEN [ fn EXCEPT !.stage = "threw" ]
             ELSE [ fn EXCEPT !.stage = "split", !.urls = SplitUrls(fn.msg.Attachments.s) ]
    /\ UNCHANGED runVars

\* lines 147-156 for every url: the file name, or << >> where new URL throws
ParseDerive ==
    /\ fn.stage = "split"
    /\ fn' = [ fn EXCEPT !.stage = "named",
                         !.names = [ k \in 1..Len(fn.urls) |->
                                       IF UrlParses(fn.urls[k])
                                       THEN FilePath(fn.msg.ID, k - 1, fn.urls[k])
                                       ELSE << >> ] ]
    /\ UNCHANGED runVars

NextParse ==
    \/ ParseRead
    \/ ParseSplit
    \/ ParseDerive

SpecParse == InitParse /\ [][NextParse]_vars

(***************************************************************************)
(* Vocabulary of the properties.                                           *)
(***************************************************************************)
\* the attachment tasks of the parsed input: << message, ordinal >>
UrlsOf(msg) ==
    IF msg.Attachments.t = "str" /\ ~NoAttachments(msg.Attachments)
    THEN SplitUrls(msg.Attachments.s) ELSE << >>

TasksOf(d) == UNION { { << m, n >> : n \in 1..Len(UrlsOf(d[m])) } : m \in 1..Len(d) }

TaskUrl(d, t) == SplitUrls(d[t[1]].Attachments.s)[t[2]]
TaskPath(d, t) == FilePath(d[t[1]].ID, t[2] - 1, TaskUrl(d, t))
NamedTasks(d) == { t \in TasksOf(d) : UrlParses(TaskUrl(d, t)) }

LinesOf(kinds) == { k \in 1..Len(out) : out[k].k \in kinds }
Considered == { << out[k].m, out[k].n >> : k \in LinesOf({ "downloaded", "skipped", "error" }) }

\* the paths of the calls of downloadFile that failed in this process after
\* their request was sent, and of those that succeeded
FailedPaths ==
    { FilePath(data[out[k].m].ID, out[k].n - 1, out[k].what) :
        k \in { j \in LinesOf({ "error" }) : UrlParses(out[j].what) /\ ~GetThrows(out[j].what) } }
DownloadedPaths == { out[k].what : k \in LinesOf({ "downloaded" }) }

IsDigits(s) == s # << >> /\ \A k \in 1..Len(s) : s[k] \in { DigitChunk(d) : d \in 0..9 }

(***************************************************************************)
(* C1. When a call of downloadFile fails on a status other than 200 or on   *)
(* a transport error, the file it created no longer exists at the moment   *)
(* the rejection reaches the caller, and it does not exist when the        *)
(* process has ended.                                                      *)
(***************************************************************************)
C1_FailedFileRemoved ==
    /\ (Awaiting({ "rejected" }) /\ xfer.why \in { "status", "transport" }) => ~Exists(xfer.path)
    /\ exitCode >= 0 => \A p \in FailedPaths \ DownloadedPaths : ~Exists(p)

(***************************************************************************)
(* C2. A second run on the same input and directory, after a first run     *)
(* that ran to its end, starts no transfer, downloads nothing and counts   *)
(* every attachment URL as skipped, whatever the outcomes of the transfers *)
(* of the first run were.                                                  *)
(***************************************************************************)
TotalUrls(d) == Cardinality(TasksOf(d))

C3_FailureNeverEndsRun ==
    (pc \in { "done", "aborted" } /\ data # << >>) => TasksOf(data) \subseteq Considered

(***************************************************************************)
(* C4. A run ended by SIGINT has reported a summary with the current       *)
(* downloaded and skipped counts before exiting with status 0.             *)
(***************************************************************************)
C4_InterruptReportsSummary ==
    pc = "exited" =>
        /\ exitCode = 0
        /\ \E k \in LinesOf({ "stopped" }) :
              out[k].d = downloadCount /\ out[k].s = skippedCount

(***************************************************************************)
(* C5. The interrupt never stops the run while a transfer is in flight or  *)
(* in the middle of a record: the process ends on an interrupt only from   *)
(* the head of the loop over records.                                      *)
(***************************************************************************)
C5_InterruptWaitsForRecord ==
    [][ (isShuttingDown' /\ exitCode = -1 /\ pc' \in { "exited", "done" }) => pc = "loop" ]_vars

(***************************************************************************)
(* C6. With the input file missing or unreadable the process ends with a   *)
(* non-zero status and has processed no attachment; a run that completes   *)
(* ends with status 0 whatever errors its attachments had.                 *)
(***************************************************************************)
C6_ExitStatus ==
    /\ (exitCode >= 0 /\ input.kind \in { "missing", "unreadable" }) =>
          (exitCode # 0 /\ Considered = {} /\ netlog = << >>)
    /\ (exitCode >= 0 /\ pc = "done") => exitCode = 0

(***************************************************************************)
(* C7. After a transfer attempt that reached the network the pacing wait   *)
(* elapses before the next attachment is considered, and no two requests   *)
(* are sent without a wait between them.                                   *)
(***************************************************************************)
C7_PacingAfterEveryAttempt ==
    /\ (pc = "urls" /\ netlog # << >>) => netlog[Len(netlog)] = "wait"
    /\ \A k \in 1..(Len(netlog) - 1) : netlog[k] = "req" => netlog[k + 1] = "wait"

(***************************************************************************)
(* C8. The urls of a record are its tokens separated by whitespace and/or  *)
(* commas, empty tokens dropped, in their order.                           *)
(***************************************************************************)
Separators == { " ", "\t", "," }

RECURSIVE TokensOf(_)
TokensOf(s) ==
    LET hits == { k \in 1..Len(s) : s[k] \in Separators }
    IN  IF hits = {} THEN (IF s = << >> THEN << >> ELSE << s >>)
        ELSE LET k == CHOOSE x \in hits : \A y \in hits : x <= y
             IN  (IF k = 1 THEN << >> ELSE << SubSeq(s, 1, k - 1) >>)
                 \o TokensOf(SubSeq(s, k + 1, Len(s)))

C8_OneTaskPerToken ==
    (fn.stage \in { "split", "named" } /\ fn.rec.att.t = "str") =>
        fn.urls = TokensOf(fn.rec.att.s)

(***************************************************************************)
(* C9. An ID written as an integer literal comes out of readFile as a      *)
(* string with the same digits, and the rest of the record is unchanged.   *)
(***************************************************************************)
C9_IntegerIdBecomesString ==
    (fn.stage = "parsed" /\ fn.rec.id.form = "int") =>
        /\ fn.msg.ID = [ t |-> "string", s |-> fn.rec.id.ds ]
        /\ fn.msg.Attachments = fn.rec.att

(***************************************************************************)
(* C10. No two different attachment tasks of the parsed input (looked at   *)
(* when the input has just been parsed) derive the same path, and in a run *)
(* on an empty directory no attachment is skipped as existing.             *)
(***************************************************************************)
JustParsed == pc = "loop" /\ mi = 1
JustLogged(kind) == out # << >> /\ out[Len(out)].k = kind

SameSlot(d, t1, t2) ==
    /\ t1[1] # t2[1]
    /\ t1[2] = t2[2]
    /\ d[t1[1]].ID.s = d[t2[1]].ID.s

C11_DistinctOrdinalsDistinctNames ==
    fn.stage = "named" =>
        \A a, b \in 1..Len(fn.names) :
            (a # b /\ UrlParses(fn.urls[a]) /\ UrlParses(fn.urls[b])) =>
                fn.names[a] # fn.names[b]

\* ordinals 1 and 11 of one record, the first with the extension ".1", the
\* other with none
C11_Witness ==
    /\ fn.stage = "named"
    /\ Len(fn.names) = 11
    /\ ExtName(Basename(UrlPathname(fn.urls[1]))) = << ".", "1" >>
    /\ ExtName(Basename(UrlPathname(fn.urls[11]))) = << >>
    /\ fn.names[1] # << >> /\ fn.names[11] # << >>

(***************************************************************************)
(* C12. The file name of an attachment is the same in every run on the     *)
(* same input: it is the name derived from the record's ID, the position   *)
(* of the URL among all tokens of the field (tokens that are no URL        *)
(* counted) and the URL, and it equals the name the previous run reported  *)
(* for that attachment, whatever files exist and however earlier           *)
(* transfers ended.                                                        *)
(***************************************************************************)
C12_NameStableAcrossRuns ==
    /\ \A k \in LinesOf({ "downloaded", "skipped" }) :
          /\ out[k].what = TaskPath(readFile(input.recs), << out[k].m, out[k].n >>)
          /\ \A t \in prev.names :
                (t[1] = out[k].m /\ t[2] = out[k].n) => out[k].what = t[3]
    /\ pc = "transfer" =>
          /\ xfer.path = TaskPath(readFile(input.recs), << mi, i + 1 >>)
          /\ \A t \in prev.names : (t[1] = mi /\ t[2] = i + 1) => xfer.path = t[3]

\* the second run skips, under the name of the first run, a URL that
\* follows a token that is no URL; the first run had fetched it
C12_Witness ==
    /\ run = 2
    /\ prev.errors > 0
    /\ JustLogged("skipped")
    /\ LET l == out[Len(out)]
       IN  /\ l.n = 2
           /\ ~UrlParses(UrlsOf(data[l.m])[1])
           /\ << l.m, l.n, l.what >> \in prev.names
           /\ l.what = data[l.m].ID.s \o << "_", "2", ".", "jpg" >>

(***************************************************************************)
(* C13. Attachments are processed one at a time and in order: the reports  *)
(* of a run follow the order of the records and, within a record, of the   *)
(* field, with no attachment reported twice and none passed over; at most  *)
(* one request is unsettled at any moment, and none is while the loop      *)
(* considers the next attachment or record or the pacing wait runs.        *)
(***************************************************************************)
Before(t1, t2) == t1[1] < t2[1] \/ (t1[1] = t2[1] /\ t1[2] < t2[2])

AttachmentLines == LinesOf({ "downloaded", "skipped", "error" })

\* requests sent and not yet settled (reported as downloaded or as failed)
Unsettled ==
    Cardinality({ k \in 1..Len(netlog) : netlog[k] = "req" })
    - Cardinality(LinesOf({ "downloaded" }))
    - Cardinality({ k \in LinesOf({ "error" }) : UrlParses(out[k].what) /\ ~GetThrows(out[k].what) })

AtCheck == pc = "urls" /\ i < Len(urls) /\ UrlParses(urls[i + 1]) /\ i' # i
CheckedPath == FilePath(data[mi].ID, i, urls[i + 1])

C14_SkipLeavesAllElseAlone ==
    [][ /\ (AtCheck /\ CheckedPath \in DOMAIN files) =>
              /\ skippedCount' = skippedCount + 1
              /\ UNCHANGED << downloadCount, files, pendingIO, netlog, xfer >>
              /\ out' = Append(out, Line("skipped", CheckedPath, mi, i + 1))
        /\ (Len(netlog') > Len(netlog) /\ netlog'[Len(netlog')] = "req") =>
              /\ xfer'.path \notin DOMAIN files
              /\ UNCHANGED << downloadCount, skippedCount >>
        /\ (\E op \in pendingIO' \ pendingIO : op.op = "open") =>
              xfer'.path \notin DOMAIN files
      ]_vars

\* a second run has just skipped a file the first run downloaded
C14_Witness ==
    /\ run = 2
    /\ JustLogged("skipped")
    /\ skippedCount = 1 /\ downloadCount = 0
    /\ netlog = << >> /\ pendingIO = {}
    /\ out[Len(out)].what \in DOMAIN files
    /\ files[out[Len(out)].what] = "complete"

(***************************************************************************)
(* C15. The turn of the loop over records that meets a record whose        *)
(* Attachments member is missing, empty or blank goes on to the next       *)
(* record and does nothing else: no file operation, no request, no change  *)
(* of a counter, no report and no error; no attachment of such a record is *)
(* ever reported.                                                          *)
(***************************************************************************)
FieldBlank(att) ==
    \/ att.t = "absent"
    \/ att.t = "str" /\ \A k \in 1..Len(att.s) : att.s[k] \in Whitespace

AtBlankRecord ==
    /\ pc = "loop" /\ mi \in 1..Len(data)
    /\ FieldBlank(input.recs[mi].att)
    /\ << mi, pc, urls, i, out >>' # << mi, pc, urls, i, out >>

C15_BlankRecordIgnored ==
    [][ /\ AtBlankRecord =>
              /\ mi' = mi + 1 /\ pc' = "loop"
              /\ UNCHANGED << files, pendingIO, netlog, xfer, out,
                              downloadCount, skippedCount, exitCode >>
        /\ \A k \in 1..Len(out') :
              out'[k].m \in 1..Len(input.recs) => ~FieldBlank(input.recs[out'[k].m].att)
      ]_vars

\* a record with no Attachments member has been passed and the next record
\* is at hand, with nothing done so far
C15_Witness ==
    /\ pc = "loop" /\ mi = 2 /\ Len(data) = 2
    /\ input.recs[1].att.t = "absent"
    /\ out = << >> /\ netlog = << >> /\ DOMAIN files = {}
    /\ downloadCount = 0 /\ skippedCount = 0

(***************************************************************************)
(* C16. Every call of downloadFile eventually resolves or rejects, and     *)
(* every run that has parsed its input eventually ends with a summary of   *)
(* the counts (or is ended by an interrupt or by a field that is no        *)
(* string), whatever the outcomes of its transfers.                        *)
(***************************************************************************)
C16_EveryRunEndsWithSummary ==
    /\ Awaiting({ "requested", "piping" }) ~>
          (xfer.state \in { "resolved", "rejected" } \/ pc = "exited")
    /\ JustParsed ~>
          \/ pc = "done" /\ JustLogged("complete")
          \/ pc \in { "exited", "aborted" }

(***************************************************************************)
(* C17. When the await of downloadFile returns and downloadCount is        *)
(* incremented, the destination holds the whole body and has been closed:  *)
(* no close of it is still waiting to be done.                             *)
(***************************************************************************)
C17_WrittenAndClosedOnResolve ==
    [][ downloadCount' = downloadCount + 1 =>
            /\ xfer.path \in DOMAIN files
            /\ files[xfer.path] = "complete"
            /\ IoOp("close", xfer.path) \notin pendingIO
      ]_vars

(***************************************************************************)
(* C18. In every run of a sequence of runs that started on an empty        *)
(* directory, each earlier run having completed or having been ended by an *)
(* interrupt, a file that the existence check finds and counts as skipped  *)
(* holds a complete body: never an empty or a partly written file.         *)
(***************************************************************************)
C18_SkippedFileIsComplete ==
    [][ ( /\ prev.end \in { "none", "done", "exited" }
          /\ AtCheck /\ CheckedPath \in DOMAIN files
          /\ skippedCount' = skippedCount + 1 ) =>
            files[CheckedPath] = "complete"
      ]_vars

(***************************************************************************)
(* C19. downloadCount is the number of awaits of downloadFile that have    *)
(* returned and skippedCount the number of existence checks that found a   *)
(* file; no attachment is counted twice, a failed attachment changes       *)
(* neither counter, and the sum of both never exceeds the number of        *)
(* attachments considered so far.                                          *)
(***************************************************************************)
\* transfers that resolved and whose await has returned to the loop
ResolvedSoFar ==
    Cardinality(LinesOf({ "downloaded" })) - (IF Awaiting({ "resolved" }) THEN 1 ELSE 0)

CountersMatch ==
    /\ downloadCount = ResolvedSoFar
    /\ skippedCount = Cardinality(LinesOf({ "skipped" }))
    /\ \A j, k \in LinesOf({ "downloaded", "skipped" }) :
          (out[j].m = out[k].m /\ out[j].n = out[k].n) => j = k
    /\ downloadCount + skippedCount <= Cardinality(Considered)

FailureCountsNothing ==
    (Len(out') = Len(out) + 1 /\ out'[Len(out')].k \in { "error", "fatal" }) =>
        UNCHANGED << downloadCount, skippedCount >>

C19_CountersMatchOutcomes == []CountersMatch /\ [][FailureCountsNothing]_vars

\* a completed run with one attachment downloaded, one skipped and one failed
C19_Witness ==
    /\ pc = "done"
    /\ downloadCount = 1 /\ skippedCount = 1
    /\ ErrorLines(out) >= 1
    /\ Cardinality(Considered) > 2

=============================================================================
